---- MODULE Spec2Model ----
(***************************************************************************)
(* A model of gtsam_unstable/geometry/Similarity3.cpp (the similarity      *)
(* group of 3-space) and gtsam_unstable/nonlinear/ExpressionFactor.h (the  *)
(* expression factor).                                                     *)
(*                                                                         *)
(* Numbers.  A double is modelled as a pair <<n, d>> with d >= 0 in lowest *)
(* terms: d > 0 is the rational n/d, <<1,0>> is +Inf, <<-1,0>> is -Inf and  *)
(* <<0,0>> is NaN, with IEEE-754 rules for the special values.  Zero is    *)
(* unsigned (1/0 = +Inf).  Every finite value the model reaches is a small *)
(* dyadic rational or a small integer combination of them, on which        *)
(* double arithmetic is exact, so rounding is not modelled.                *)
(***************************************************************************)
EXTENDS Integers, Sequences, FiniteSets, TLC

VARIABLES
    a,      \* Similarity3 register: the object operations are applied to
    b,      \* Similarity3 register: the right/left operand of operator*
    n,      \* number of operator* / inverse / Expmap calls that built `a`
    last,   \* name of the last operation performed
    v,      \* Vector7 register: the tangent vector Expmap reads, Logmap writes
    src,    \* the value a chain of Expmap / Logmap calls started from
    trip,   \* the chain of Expmap / Logmap calls applied to src
    dz,     \* coefficients whose denominator was zero in the last Expmap/Logmap
    q,      \* Point3 returned by the last transform_from call
    fac,    \* the ExpressionFactor the last constructor call produced, if any
    call,   \* the last call made on the factor class, with its arguments
    ret,    \* how that call ended and what it returned
    Hbuf,   \* the caller's Jacobian buffers after that call
    ndebug  \* whether the build compiles assert() out (NDEBUG)

(***************************************************************************)
(* double arithmetic                                                       *)
(***************************************************************************)
Abs(x) == IF x < 0 THEN -x ELSE x

Sgn(x) == IF x < 0 THEN -1 ELSE IF x > 0 THEN 1 ELSE 0

RECURSIVE Gcd(_, _)
Gcd(x, y) == IF y = 0 THEN x ELSE Gcd(y, x % y)

\* lowest terms, positive denominator; d = 0 keeps only the sign (Inf/NaN)
Norm(x) ==
    IF x[2] = 0 THEN <<Sgn(x[1]), 0>>
    ELSE LET sg == Sgn(x[2])
             g  == Gcd(Abs(x[1]), Abs(x[2]))
         IN  <<(sg * x[1]) \div g, (sg * x[2]) \div g>>

Num(i) == <<i, 1>>
NaN == <<0, 0>>
Zero == Num(0)
One == Num(1)

IsNaN(x) == x = NaN
IsFinite(x) == x[2] > 0

Mul(x, y) == Norm(<<x[1] * y[1], x[2] * y[2]>>)

Add(x, y) ==
    IF x[2] = 0 /\ y[2] = 0
    THEN (IF x = y THEN x ELSE NaN)       \* Inf + Inf, Inf - Inf, NaN + ..
    ELSE Norm(<<x[1] * y[2] + y[1] * x[2], x[2] * y[2]>>)

Neg(x) == <<-x[1], x[2]>>

\* x / y as IEEE: finite/0 = +-Inf, 0/0 = NaN, finite/Inf = 0
Div(x, y) == Mul(x, Norm(<<y[2], y[1]>>))

Less(x, y) == IsFinite(x) /\ IsFinite(y) /\ x[1] * y[2] < y[1] * x[2]

(***************************************************************************)
(* Point3 / Vector3 and Rot3 (matrix representation)                       *)
(***************************************************************************)
Idx == 1..3

Vec(x, y, z) == <<Num(x), Num(y), Num(z)>>

Origin == Vec(0, 0, 0)

\* scalar * Point3
Scale(k, p) == [i \in Idx |-> Mul(k, p[i])]

\* Point3 + Point3
Plus(p, r) == [i \in Idx |-> Add(p[i], r[i])]

\* Rot3 * Point3: the matrix-vector product
Rotate(R, p) ==
    [i \in Idx |-> Add(Add(Mul(Num(R[i][1]), p[1]), Mul(Num(R[i][2]), p[2])),
                       Mul(Num(R[i][3]), p[3]))]

\* Rot3 * Rot3: the matrix product
RotMul(R, S) ==
    [i \in Idx |-> [j \in Idx |-> R[i][1] * S[1][j] + R[i][2] * S[2][j]
                                   + R[i][3] * S[3][j]]]

\* Rot3::inverse(): the transpose
RotInverse(R) == [i \in Idx |-> [j \in Idx |-> R[j][i]]]

RotIdentity == <<<<1, 0, 0>>, <<0, 1, 0>>, <<0, 0, 1>>>>

Det(R) ==
      R[1][1] * (R[2][2] * R[3][3] - R[2][3] * R[3][2])
    - R[1][2] * (R[2][1] * R[3][3] - R[2][3] * R[3][1])
    + R[1][3] * (R[2][1] * R[3][2] - R[2][2] * R[3][1])

IsRotation(R) == RotMul(R, RotInverse(R)) = RotIdentity /\ Det(R) = 1

(***************************************************************************)
(* Similarity3                                                             *)
(***************************************************************************)
\* Similarity3(): R_(), t_(), s_(1)
Similarity3Default == [R |-> RotIdentity, t |-> Origin, s |-> One]

\* Similarity3(double s): s_(s), R_ and t_ default-constructed
Similarity3Scale(s) == [R |-> RotIdentity, t |-> Origin, s |-> s]

\* Similarity3(R, t, s): R_(R), t_(t), s_(s); nothing is validated
Similarity3Full(R, t, s) == [R |-> R, t |-> t, s |-> s]

identity == Similarity3Default

\* operator* dividing the translation by its own scale instead of T's
operator_mul_own_scale(x, T) ==
    [R |-> RotMul(x.R, T.R),
     t |-> Plus(Scale(Div(One, x.s), x.t), Rotate(x.R, T.t)),
     s |-> Mul(x.s, T.s)]

\* operator*(const Similarity3& T)
operator_mul(x, T) ==
    Similarity3Full(RotMul(x.R, T.R),
                    Plus(Scale(Div(One, T.s), x.t), Rotate(x.R, T.t)),
                    Mul(x.s, T.s))

\* inverse() that does not scale the translation by -s_
inverse_unscaled(x) ==
    [R |-> RotInverse(x.R),
     t |-> Rotate(RotInverse(x.R), Scale(Num(-1), x.t)),
     s |-> Div(One, x.s)]

inverse(x) ==
    LET Rt  == RotInverse(x.R)
        sRt == Rotate(RotInverse(x.R), Scale(Neg(x.s), x.t))
    IN  Similarity3Full(Rt, sRt, Div(One, x.s))

\* transform_from(p) without Jacobians: R_ * (s_ * p) + t_
transform_from(x, p) == Plus(Rotate(x.R, Scale(x.s, p)), x.t)

\* operator*(const Point3& p)
operator_mul_point(x, p) == transform_from(x, p)

(***************************************************************************)
(* Expmap / Logmap.                                                        *)
(*                                                                         *)
(* A Vector7 is [w, u, lambda].  The rotation part w is an integer triple  *)
(* counted in quarter turns (w = <<0,0,1>> is the vector (0,0,pi/2)) and   *)
(* lambda is an integer counted in units of ln 2, so that the rotation     *)
(* exponential and exp(-lambda) are exact.  sin, cos and exp of a non-zero *)
(* argument are irrational: a coefficient is tracked by its IEEE class,    *)
(* "fin" (finite), "inf" or "nan", which the zero tests of numerator and   *)
(* denominator decide, and the product V*u of a finite V is kept as the    *)
(* term <<"Vu", w, lambda, u>> (V.inverse()*t as <<"Vinv", w, lambda, t>>).*)
(* For the arguments used here (theta in {0, pi/2}) every numerator is     *)
(* zero exactly when its argument is zero, and a finite V is invertible.   *)
(***************************************************************************)
Vector7(w, u, lambda) == [w |-> w, u |-> u, lambda |-> lambda]

skewSymmetric(wx, wy, wz) ==
    <<<<0, -wz, wy>>, <<wz, 0, -wx>>, <<-wy, wx, 0>>>>

MatAdd(M, N) == [i \in Idx |-> [j \in Idx |-> M[i][j] + N[i][j]]]

\* Rot3::Expmap(w) for w a quarter turn about an axis (sin = 1, cos = 0), or 0
RotExpmap(w) ==
    LET K == skewSymmetric(w[1], w[2], w[3])
    IN  MatAdd(RotIdentity, MatAdd(K, RotMul(K, K)))

\* the rotation parts Rot3::Logmap is tabulated for
QuarterTurns ==
    {<<0, 0, 0>>, <<1, 0, 0>>, <<-1, 0, 0>>, <<0, 1, 0>>, <<0, -1, 0>>,
     <<0, 0, 1>>, <<0, 0, -1>>}

\* Rot3::Logmap(R)
RotLogmap(R) == CHOOSE w \in QuarterTurns : RotExpmap(w) = R

RECURSIVE Pow2(_)
Pow2(k) == IF k = 0 THEN 1 ELSE 2 * Pow2(k - 1)

\* exp(-lambda), lambda in units of ln 2
ExpNeg(lambda) == IF lambda >= 0 THEN <<1, Pow2(lambda)>> ELSE <<Pow2(-lambda), 1>>

\* log(s) in units of ln 2, for s a power of two (numerator or denominator 1)
LogScale(s) == IF s[2] = 1 THEN CHOOSE k \in 0..s[1] : Pow2(k) = s[1]
               ELSE -(CHOOSE k \in 0..s[2] : Pow2(k) = s[2])

\* IEEE class of numerator/denominator from their zero tests
Quot(numZero, denZero) ==
    IF denZero THEN (IF numZero THEN "nan" ELSE "inf") ELSE "fin"

\* IEEE class of a sum/product of terms none of which is an exact zero
Comb(cs) == IF "nan" \in cs THEN "nan" ELSE IF "inf" \in cs THEN "inf" ELSE "fin"

\* the coefficients of Logmap (lines 108-122) and Expmap (lines 135-150)
Coefficients(w, lambda) ==
    LET lambdasquared == lambda * lambda
        thetasquared  == w[1] * w[1] + w[2] * w[2] + w[3] * w[3]
        theta   == thetasquared             \* sqrt: zero iff thetasquared is
        X       == Quot(theta = 0, theta = 0)
        Y       == Quot(theta = 0, thetasquared = 0)
        Z       == Comb({X, Quot(FALSE, thetasquared = 0)})
        W       == Comb({Y, Quot(FALSE, thetasquared = 0)})
        alpha   == Quot(lambdasquared = 0, lambdasquared * thetasquared = 0)
        beta    == Quot(lambda = 0, lambdasquared = 0)
        gama    == Comb({Y, Z})
        mu      == Quot(lambda = 0, lambdasquared * lambda = 0)
        upsilon == Comb({Z, W})
        A       == Quot(lambda = 0, lambda = 0)
        B       == Comb({alpha, beta, gama})
        C       == Comb({alpha, mu, upsilon})
    IN  [X |-> X, Y |-> Y, Z |-> Z, W |-> W, alpha |-> alpha, beta |-> beta,
         gama |-> gama, mu |-> mu, upsilon |-> upsilon, A |-> A, B |-> B, C |-> C]

\* the quotients of those lines whose denominator is zero
ZeroDenominators(w, lambda) ==
    LET thetasquared == w[1] * w[1] + w[2] * w[2] + w[3] * w[3]
    IN  (IF thetasquared = 0 THEN {"X", "Y", "Z", "W"} ELSE {})
        \cup (IF lambda * lambda * thetasquared = 0 THEN {"alpha"} ELSE {})
        \cup (IF lambda = 0 THEN {"beta", "mu", "A"} ELSE {})

\* V = A*I + B*wx + C*wx*wx is finite iff A, B and C are
VFinite(w, lambda) ==
    LET c == Coefficients(w, lambda)
    IN  c.A = "fin" /\ c.B = "fin" /\ c.C = "fin"

NaNVec == <<NaN, NaN, NaN>>

IsExactVec(p) == Len(p) = 3

IsFiniteVec(p) == IsExactVec(p) /\ \A i \in Idx : IsFinite(p[i])

\* V * u
VTimes(w, lambda, u) ==
    IF ~VFinite(w, lambda) THEN NaNVec
    ELSE IF ~IsExactVec(u)
         THEN (IF u[1] = "Vinv" /\ u[2] = w /\ u[3] = lambda THEN u[4]
               ELSE <<"Vu", w, lambda, u>>)
    ELSE IF ~IsFiniteVec(u) THEN NaNVec
    ELSE IF u = Origin THEN Origin
    ELSE <<"Vu", w, lambda, u>>

\* V.inverse() * t
VSolve(w, lambda, t) ==
    IF ~VFinite(w, lambda) THEN NaNVec
    ELSE IF ~IsExactVec(t)
         THEN (IF t[1] = "Vu" /\ t[2] = w /\ t[3] = lambda THEN t[4]
               ELSE <<"Vinv", w, lambda, t>>)
    ELSE IF ~IsFiniteVec(t) THEN NaNVec
    ELSE IF t = Origin THEN Origin
    ELSE <<"Vinv", w, lambda, t>>

Logmap(x) ==
    LET w      == RotLogmap(x.R)
        lambda == LogScale(x.s)
    IN  Vector7(w, VSolve(w, lambda, x.t), lambda)

Expmap(vec) ==
    Similarity3Full(RotExpmap(vec.w), VTimes(vec.w, vec.lambda, vec.u),
                    Div(One, ExpNeg(vec.lambda)))

\* ChartAtOrigin::Retract
Retract(vec) == Expmap(vec)

\* ChartAtOrigin::Local
Local(other) == Logmap(other)

(***************************************************************************)
(* Bounds and inputs                                                       *)
(***************************************************************************)
\* operator* / inverse calls applied to a constructed element
MaxOps == 1

Rz == RotExpmap(<<0, 0, 1>>)
Rx == RotExpmap(<<1, 0, 0>>)
\* a Matrix3 that is no rotation (a reflection): the Matrix3 constructor takes it
Mirror == <<<<1, 0, 0>>, <<0, 1, 0>>, <<0, 0, -1>>>>

PointInputs == {Origin, Vec(1, 0, 0), Vec(1, 2, 3)}

\* arguments of Similarity3(double s)
ScaleInputs == {Num(-1), Zero, Num(2)}

\* arguments of Similarity3(R, t, s)
FullInputs ==
    {<<Rz, Vec(1, 2, 3), Num(2)>>, <<Rx, Vec(1, 0, 0), <<1, 4>>>>,
     <<RotIdentity, Vec(1, 0, 0), One>>, <<Mirror, Vec(0, 1, 0), One>>}

\* arguments of Expmap
TangentInputs ==
    {Vector7(<<0, 0, 0>>, Origin, 0), Vector7(<<0, 0, 0>>, Vec(1, 2, 3), 1),
     Vector7(<<0, 0, 1>>, Origin, 1), Vector7(<<-1, 0, 0>>, Vec(1, 2, 3), -1)}

\* every element a constructor call of the model returns
Constructible ==
    {Similarity3Default} \cup {Similarity3Scale(s) : s \in ScaleInputs}
        \cup {Similarity3Full(x[1], x[2], x[3]) : x \in FullInputs}

groupVars == <<a, b, n, last, v, src, trip, dz, q>>

factorVars == <<fac, call, ret, Hbuf, ndebug>>

vars == <<groupVars, factorVars>>

explogVars == <<v, src, trip, dz>>

(***************************************************************************)
(* The group operations as a state machine                                 *)
(***************************************************************************)
InitGroup ==
    /\ a = Similarity3Default
    /\ b = Similarity3Default
    /\ n = 0
    /\ last = "init"
    /\ v = Vector7(<<0, 0, 0>>, Origin, 0)
    /\ src = Vector7(<<0, 0, 0>>, Origin, 0)
    /\ trip = "init"
    /\ dz = {}
    /\ q = Origin

\* no factor constructed, no call made
InitNoFactor ==
    /\ fac = [made |-> FALSE]
    /\ call = [op |-> "none"]
    /\ ret = [status |-> "none"]
    /\ Hbuf = <<>>

Init == InitGroup /\ InitNoFactor /\ ndebug = FALSE

\* store a freshly constructed element in register a or b
Store(reg, e) ==
    /\ IF reg = "a" THEN a' = e /\ n' = 0 /\ b' = b
                    ELSE b' = e /\ UNCHANGED <<a, n>>
    /\ last' = "constructor"
    /\ q' = Origin
    /\ UNCHANGED <<explogVars, factorVars>>

DefaultCtor == \E reg \in {"a", "b"} : Store(reg, Similarity3Default)

ScaleCtor == \E reg \in {"a", "b"}, s \in ScaleInputs : Store(reg, Similarity3Scale(s))

FullCtor ==
    \E reg \in {"a", "b"}, x \in FullInputs :
        Store(reg, Similarity3Full(x[1], x[2], x[3]))

\* a = a * b, or a = b * a
Compose ==
    /\ n < MaxOps
    /\ IsExactVec(a.t)
    /\ \E left \in BOOLEAN :
          a' = IF left THEN operator_mul(b, a) ELSE operator_mul(a, b)
    /\ n' = n + 1
    /\ last' = "operator*"
    /\ q' = Origin
    /\ UNCHANGED <<b, explogVars, factorVars>>

\* a = a.inverse()
Invert ==
    /\ n < MaxOps
    /\ IsExactVec(a.t)
    /\ a' = inverse(a)
    /\ n' = n + 1
    /\ last' = "inverse"
    /\ q' = Origin
    /\ UNCHANGED <<b, explogVars, factorVars>>

\* a = Similarity3::Expmap(vec)
ExpmapCall ==
    /\ \E vec \in TangentInputs : a' = Expmap(vec)
    /\ n' = 0
    /\ last' = "Expmap"
    /\ q' = Origin
    /\ UNCHANGED <<b, explogVars, factorVars>>

\* q = a.transform_from(p)
TransformFrom ==
    /\ IsExactVec(a.t)
    /\ \E p \in PointInputs : q' = transform_from(a, p)
    /\ last' = "transform_from"
    /\ UNCHANGED <<a, b, n, explogVars, factorVars>>

Next ==
    \/ DefaultCtor
    \/ ScaleCtor
    \/ FullCtor
    \/ Compose
    \/ Invert
    \/ ExpmapCall
    \/ TransformFrom

Spec == Init /\ [][Next]_vars

(***************************************************************************)
(* Properties of the group operations                                      *)
(***************************************************************************)
\* (R, t, s) with R a rotation, t a vector of reals and s a positive real
Valid(e) ==
    /\ IsRotation(e.R)
    /\ IsFiniteVec(e.t)
    /\ Less(Zero, e.s)

\* far from the identity in every component
Generic(e) == e.R # RotIdentity /\ e.t # Origin /\ e.s # One

\* C1: for elements a, b with positive scales and every point p, the
\* composed element acts as the composition of the two actions:
\* (a*b).transform_from(p) = a.transform_from(b.transform_from(p)).
C1_ActsAsComposition ==
    (Valid(a) /\ Valid(b)) =>
        \A p \in PointInputs :
            transform_from(operator_mul(a, b), p)
                = transform_from(a, transform_from(b, p))

\* C2: for every element a = (R, t, s) with R a rotation and s > 0,
\* inverse() is a two-sided inverse under operator*: a * a.inverse() and
\* a.inverse() * a both equal the identity element.
C2_InverseTwoSided ==
    Valid(a) =>
        /\ operator_mul(a, inverse(a)) = identity
        /\ operator_mul(inverse(a), a) = identity

\* an inverse() call has returned a valid element far from the identity
C2_Witness == last = "inverse" /\ Valid(a) /\ Generic(a)

\* C3: operator* is associative: for all elements a, b, c with positive
\* scales, (a*b)*c and a*(b*c) have the same rotation, translation and scale.
C3_Associative ==
    (Valid(a) /\ Valid(b)) =>
        \A c \in Constructible :
            Valid(c) =>
                operator_mul(operator_mul(a, b), c)
                    = operator_mul(a, operator_mul(b, c))

\* operator* has returned a valid element from operands with non-commuting
\* rotations, non-zero translations and non-unit scales
C3_Witness ==
    /\ last = "operator*"
    /\ Valid(a) /\ Generic(a)
    /\ Valid(b) /\ Generic(b)
    /\ RotMul(a.R, b.R) # RotMul(b.R, a.R)

\* C4: every element reachable by the constructors, operator*, inverse()
\* and Expmap() is a valid group element: its rotation is orthonormal with
\* determinant +1 and its scale is strictly positive.
C4_ReachableValid ==
    \A e \in {a, b} : IsRotation(e.R) /\ e.s[1] > 0

(***************************************************************************)
(* The chart at the origin as a state machine: a tangent vector or an      *)
(* element is chosen, then Expmap / Logmap (or Retract / Local, which call *)
(* them) are applied in turn.                                              *)
(***************************************************************************)
\* |lambda| <= MaxLambda (in units of ln 2) for the chart's inputs
MaxLambda == 1

ZeroTangent == Vector7(<<0, 0, 0>>, Origin, 0)

ChartTangents ==
    {Vector7(w, u, lambda) : w \in {<<0, 0, 0>>, <<0, 0, 1>>, <<-1, 0, 0>>},
                             u \in PointInputs,
                             lambda \in (-MaxLambda)..MaxLambda}

ChartElements ==
    {Similarity3Full(RotExpmap(w), t, Div(One, ExpNeg(lambda))) :
        w \in {<<0, 0, 0>>, <<0, 1, 0>>}, t \in PointInputs,
        lambda \in (-MaxLambda)..MaxLambda}

SetTangent ==
    /\ \E vec \in ChartTangents : v' = vec /\ src' = vec
    /\ trip' = "v"
    /\ last' = "input"
    /\ dz' = {}
    /\ UNCHANGED <<a, b, n, q, factorVars>>

SetElement ==
    /\ \E e \in ChartElements : a' = e /\ src' = e
    /\ trip' = "a"
    /\ last' = "input"
    /\ dz' = {}
    /\ UNCHANGED <<v, b, n, q, factorVars>>

\* a = Expmap(v), directly or through ChartAtOrigin::Retract
ExpmapStep ==
    /\ trip \in {"v", "Log"}
    /\ \E chart \in BOOLEAN :
          /\ a' = IF chart THEN Retract(v) ELSE Expmap(v)
          /\ last' = IF chart THEN "Retract" ELSE "Expmap"
    /\ trip' = IF trip = "v" THEN "Exp" ELSE "ExpLog"
    /\ dz' = ZeroDenominators(v.w, v.lambda)
    /\ UNCHANGED <<v, src, b, n, q, factorVars>>

\* v = Logmap(a), directly or through ChartAtOrigin::Local
LogmapStep ==
    /\ trip \in {"a", "Exp"}
    /\ \E chart \in BOOLEAN :
          /\ v' = IF chart THEN Local(a) ELSE Logmap(a)
          /\ last' = IF chart THEN "Local" ELSE "Logmap"
    /\ trip' = IF trip = "a" THEN "Log" ELSE "LogExp"
    /\ dz' = ZeroDenominators(v'.w, v'.lambda)
    /\ UNCHANGED <<a, src, b, n, q, factorVars>>

NextChart ==
    \/ SetTangent
    \/ SetElement
    \/ ExpmapStep
    \/ LogmapStep

SpecChart == Init /\ [][NextChart]_vars

\* C5: Expmap and Logmap never divide by zero: at theta = 0 or lambda = 0
\* (identity rotation, scale 1) every coefficient is computed without a
\* zero denominator and the result is well defined; Expmap of the zero
\* tangent vector is the identity element.
C5_NoZeroDenominator ==
    /\ last \in {"Expmap", "Retract", "Logmap", "Local"} => dz = {}
    /\ last \in {"Expmap", "Retract"} => IsFiniteVec(a.t) \/ ~IsExactVec(a.t)
    /\ last \in {"Logmap", "Local"} => IsFiniteVec(v.u) \/ ~IsExactVec(v.u)
    /\ (last \in {"Expmap", "Retract"} /\ v = ZeroTangent) => a = identity

\* C10: Expmap and Logmap are mutually inverse near the identity, the
\* origin and the identity included: Logmap(Expmap(v)) = v and
\* Expmap(Logmap(a)) = a, also through Retract and Local.
C10_RoundTrip ==
    /\ trip = "LogExp" => v = src
    /\ trip = "ExpLog" => a = src

(***************************************************************************)
(* ExpressionFactor<T>.                                                    *)
(*                                                                         *)
(* T is a vector type of dimension TDim whose localCoordinates is the      *)
(* difference.  Key k names an unknown of local dimension k.  An           *)
(* Expression<T> is [keys, dims]: its value is linear in the unknowns with *)
(* the coefficients Coef, and value(x, blocks) adds the Jacobian of each   *)
(* key into that key's block.  A noise model is [kind, dim], kind "null"   *)
(* for an empty shared pointer.  A matrix is the sequence of its rows.     *)
(***************************************************************************)
\* T::dimension
TDim == 2

\* noise models of dimension 1..MaxNoiseDim are offered to the constructor
MaxNoiseDim == 3

RECURSIVE Sum(_)
Sum(seq) == IF seq = <<>> THEN 0 ELSE seq[1] + Sum(Tail(seq))

NullModel == [kind |-> "null", dim |-> 0]

NoiseInputs ==
    {NullModel} \cup {[kind |-> k, dim |-> d] :
                        k \in {"Constrained", "Diagonal"}, d \in 1..MaxNoiseDim}

\* noiseModel::Constrained::unit()
unit(model) == [kind |-> "Unit", dim |-> model.dim]

KeyDim(k) == k

ExpressionInputs ==
    {[keys |-> ks, dims |-> [i \in DOMAIN ks |-> KeyDim(ks[i])]] :
        ks \in {<<1>>, <<2>>, <<1, 2>>}}

MeasurementInputs == {[r \in 1..TDim |-> c] : c \in {0, 5}}

\* Values: key k holds a vector of KeyDim(k) numbers
ValuesInputs == {<<<<0>>, <<0, 0>>>>, <<<<1>>, <<2, 3>>>>}

Coef(r, k, j) == 3 * r + k + j

\* Expression<T>::value(x)
ExprValue(e, x) ==
    [r \in 1..TDim |->
        Sum([i \in DOMAIN e.keys |->
            Sum([j \in 1..e.dims[i] |-> Coef(r, e.keys[i], j) * x[e.keys[i]][j]])])]

\* the Jacobian of the value in the i-th key
ExprJacobian(e, i) ==
    [r \in 1..TDim |-> [j \in 1..e.dims[i] |-> Coef(r, e.keys[i], j)]]

\* T::localCoordinates
localCoordinates(measurement, value) ==
    [r \in 1..TDim |-> value[r] - measurement[r]]

ZeroMatrix(rows, cols) == [i \in 1..rows |-> [j \in 1..cols |-> 0]]

Shape(M) == <<Len(M), IF Len(M) = 0 THEN 0 ELSE Len(M[1])>>

\* block += J
AddInto(block, J) ==
    [i \in DOMAIN block |-> [j \in DOMAIN block[i] |-> block[i][j] + J[i][j]]]

NoFactor == [made |-> FALSE]

\* the constructor without the dimension check
ExpressionFactor_unchecked_dim(noiseModel, measurement, expression) ==
    IF noiseModel.kind = "null"
    THEN [status |-> "invalid_argument", what |-> "ExpressionFactor: no NoiseModel.",
          factor |-> NoFactor]
    ELSE [status |-> "ok", what |-> "",
          factor |-> [made |-> TRUE, noiseModel |-> noiseModel,
                      measurement |-> measurement, expression |-> expression,
                      keys |-> expression.keys]]

\* ExpressionFactor(noiseModel, measurement, expression)
ExpressionFactor(noiseModel, measurement, expression) ==
    IF noiseModel.kind = "null"
    THEN [status |-> "invalid_argument", what |-> "ExpressionFactor: no NoiseModel.",
          factor |-> NoFactor]
    ELSE IF noiseModel.dim # TDim
    THEN [status |-> "invalid_argument",
          what |-> "ExpressionFactor was created with a NoiseModel of incorrect dimension.",
          factor |-> NoFactor]
    ELSE [status |-> "ok", what |-> "",
          factor |-> [made |-> TRUE, noiseModel |-> noiseModel,
                      measurement |-> measurement, expression |-> expression,
                      keys |-> expression.keys]]

\* NonlinearFactor::size(): the number of keys
size(f) == Len(f.keys)

NoH == [some |-> FALSE, list |-> <<>>]

\* the loop of lines 65-71 and the evaluation of line 73 on the first `count`
\* buffers: each is resized to T::dimension x dims[i], zeroed, then filled
FillBuffers(f, H, count) ==
    [i \in DOMAIN H |->
        IF i <= count
        THEN AddInto(ZeroMatrix(TDim, f.expression.dims[i]),
                     ExprJacobian(f.expression, i))
        ELSE H[i]]

\* the same loop stopped by at() throwing: the buffers are resized and zeroed
ZeroBuffers(f, H) ==
    [i \in DOMAIN H |-> ZeroMatrix(TDim, f.expression.dims[i])]

\* unwhitenedError with assert() never firing
unwhitenedError_no_assert(f, x, H, nd) ==
    LET residual == localCoordinates(f.measurement, ExprValue(f.expression, x))
    IN  IF ~H.some
        THEN [status |-> "ok", value |-> residual, H |-> H.list]
        ELSE IF Len(H.list) < size(f)
        THEN [status |-> "out_of_range", value |-> <<>>, H |-> ZeroBuffers(f, H.list)]
        ELSE [status |-> "ok", value |-> residual,
              H |-> FillBuffers(f, H.list, size(f))]

\* unwhitenedError(x, H) in a build with (nd) or without NDEBUG
unwhitenedError(f, x, H, nd) ==
    LET residual == localCoordinates(f.measurement, ExprValue(f.expression, x))
    IN  IF ~H.some
        THEN [status |-> "ok", value |-> residual, H |-> H.list]
        ELSE IF ~nd /\ Len(H.list) # size(f)
        THEN [status |-> "abort", value |-> <<>>, H |-> H.list]
        ELSE IF Len(H.list) < size(f)
        THEN [status |-> "out_of_range", value |-> <<>>, H |-> ZeroBuffers(f, H.list)]
        ELSE [status |-> "ok", value |-> residual,
              H |-> FillBuffers(f, H.list, size(f))]

\* columns before block i of a VerticalBlockMatrix with these block widths
Offset(dims, i) == Sum([j \in 1..(i - 1) |-> dims[j]])

\* VerticalBlockMatrix Ab(dims, T::dimension, true), zeroed; block i of it
\* is the view handed to the expression for keys_[i]
prepareBlocks(f) == ZeroMatrix(TDim, Sum(f.expression.dims) + 1)

\* the columns of block i of Ab
Block(Ab, dims, i) ==
    [r \in DOMAIN Ab |-> [j \in 1..dims[i] |-> Ab[r][Offset(dims, i) + j]]]

\* Ab with J added into block i
AddIntoBlock(Ab, dims, i, J) ==
    [r \in DOMAIN Ab |-> [c \in DOMAIN Ab[r] |->
        IF c > Offset(dims, i) /\ c <= Offset(dims, i) + dims[i]
        THEN Ab[r][c] + J[r][c - Offset(dims, i)]
        ELSE Ab[r][c]]]

RECURSIVE FillBlocks(_, _, _)
\* expression_.value(x, blocks): the Jacobians of keys 1..i added into Ab
FillBlocks(Ab, e, i) ==
    IF i = 0 THEN Ab
    ELSE AddIntoBlock(FillBlocks(Ab, e, i - 1), e.dims, i, ExprJacobian(e, i))

\* Ab(size()).col(0) = b
SetLastColumn(Ab, rhs) ==
    [r \in DOMAIN Ab |-> [c \in DOMAIN Ab[r] |->
        IF c = Len(Ab[r]) THEN rhs[r] ELSE Ab[r][c]]]

NoModel == [some |-> FALSE, model |-> NullModel]

\* linearize storing the residual, not its negation
linearize_not_negated(f, x) ==
    LET e  == f.expression
        Ab == FillBlocks(prepareBlocks(f), e, size(f))
        value == ExprValue(e, x)
    IN  [status |-> "ok", keys |-> f.keys,
         Ab |-> SetLastColumn(Ab, localCoordinates(f.measurement, value)),
         model |-> IF f.noiseModel.kind = "Constrained"
                   THEN [some |-> TRUE, model |-> unit(f.noiseModel)]
                   ELSE NoModel]

\* linearize tagging every factor with the unit model
linearize_always_tagged(f, x) ==
    LET e  == f.expression
        Ab == FillBlocks(prepareBlocks(f), e, size(f))
        value == ExprValue(e, x)
    IN  [status |-> "ok", keys |-> f.keys,
         Ab |-> SetLastColumn(Ab, [r \in 1..TDim |->
                    -localCoordinates(f.measurement, value)[r]]),
         model |-> [some |-> TRUE, model |-> unit(f.noiseModel)]]

\* linearize(x): the JacobianFactor it returns
linearize(f, x) ==
    LET e  == f.expression
        Ab == FillBlocks(prepareBlocks(f), e, size(f))
        value == ExprValue(e, x)
    IN  [status |-> "ok", keys |-> f.keys,
         Ab |-> SetLastColumn(Ab, [r \in 1..TDim |->
                    -localCoordinates(f.measurement, value)[r]]),
         model |-> IF f.noiseModel.kind = "Constrained"
                   THEN [some |-> TRUE, model |-> unit(f.noiseModel)]
                   ELSE NoModel]

(***************************************************************************)
(* The factor as a state machine: construct, then evaluate or linearize    *)
(***************************************************************************)
\* a caller's buffer of the shape unwhitenedError expects for key i, and one
\* of another shape; both hold stale entries
GoodBuffer(f, i) == [r \in 1..TDim |-> [j \in 1..f.expression.dims[i] |-> 7]]
BadBuffer == <<<<7>>>>

\* buffer lists with missing, extra and wrongly shaped entries
BufferLists(f) ==
    UNION {{[i \in 1..len |-> IF i \in good THEN GoodBuffer(f, i) ELSE BadBuffer] :
                good \in SUBSET {i \in 1..len : i <= size(f)}} :
           len \in 0..(size(f) + 1)}

JacobianRequests(f) == {NoH} \cup {[some |-> TRUE, list |-> L] : L \in BufferLists(f)}

InitFactor == InitGroup /\ InitNoFactor /\ ndebug \in BOOLEAN

Construct ==
    /\ \E noiseModel \in NoiseInputs, measurement \in MeasurementInputs,
          expression \in ExpressionInputs :
          LET r == ExpressionFactor(noiseModel, measurement, expression)
          IN  /\ fac' = r.factor
              /\ call' = [op |-> "ExpressionFactor", noiseModel |-> noiseModel,
                          measurement |-> measurement, expression |-> expression]
              /\ ret' = [status |-> r.status, what |-> r.what]
    /\ Hbuf' = <<>>
    /\ UNCHANGED <<groupVars, ndebug>>

UnwhitenedErrorCall ==
    /\ fac.made
    /\ \E x \in ValuesInputs, H \in JacobianRequests(fac) :
          LET r == unwhitenedError(fac, x, H, ndebug)
          IN  /\ call' = [op |-> "unwhitenedError", x |-> x, H |-> H]
              /\ ret' = [status |-> r.status, value |-> r.value]
              /\ Hbuf' = r.H
    /\ UNCHANGED <<groupVars, fac, ndebug>>

LinearizeCall ==
    /\ fac.made
    /\ \E x \in ValuesInputs :
          /\ call' = [op |-> "linearize", x |-> x]
          /\ ret' = linearize(fac, x)
    /\ Hbuf' = <<>>
    /\ UNCHANGED <<groupVars, fac, ndebug>>

NextFactor ==
    \/ Construct
    \/ UnwhitenedErrorCall
    \/ LinearizeCall

SpecFactor == InitFactor /\ [][NextFactor]_vars

\* C6: constructing an ExpressionFactor fails with an error, and produces
\* no factor, when the noise model is absent and when its dim() differs
\* from T::dimension; it succeeds only when a noise model is present and
\* its dimension equals T::dimension.
C6_ConstructionChecks ==
    call.op = "ExpressionFactor" =>
        LET bad == call.noiseModel.kind = "null" \/ call.noiseModel.dim # TDim
        IN  /\ bad => ret.status = "invalid_argument" /\ ~fac.made
            /\ ~bad => /\ ret.status = "ok"
                       /\ fac.made
                       /\ fac.noiseModel = call.noiseModel
                       /\ fac.measurement = call.measurement
                       /\ fac.expression = call.expression

\* a constructor call with a noise model of the wrong dimension has thrown
C6_Witness ==
    /\ call.op = "ExpressionFactor"
    /\ call.noiseModel.kind # "null"
    /\ call.noiseModel.dim = TDim + 1
    /\ ret.status = "invalid_argument"
    /\ ~fac.made

\* C7: the last column of the block matrix built by linearize(x) is the
\* negation of unwhitenedError(x) called without a Jacobian request; the
\* columns before it are the per-key Jacobian blocks in key order; the
\* matrix has T::dimension rows and (sum of local dimensions + 1) columns.
C7_LinearizeColumns ==
    call.op = "linearize" =>
        LET dims  == fac.expression.dims
            plain == unwhitenedError(fac, call.x, NoH, ndebug)
            withJ == unwhitenedError(fac, call.x,
                        [some |-> TRUE,
                         list |-> [i \in 1..size(fac) |-> GoodBuffer(fac, i)]],
                        ndebug)
        IN  /\ Shape(ret.Ab) = <<TDim, Sum(dims) + 1>>
            /\ \A r \in 1..TDim : ret.Ab[r][Sum(dims) + 1] = -plain.value[r]
            /\ \A i \in 1..size(fac) : Block(ret.Ab, dims, i) = withJ.H[i]
            /\ ret.keys = fac.keys

\* linearize has returned for a factor on two keys with a non-zero residual
C7_Witness ==
    /\ call.op = "linearize"
    /\ size(fac) = 2
    /\ \E r \in 1..TDim : ret.Ab[r][Len(ret.Ab[r])] # 0

\* a Jacobian request whose buffer list has missing or extra entries, or an
\* entry of a shape other than T::dimension x (the key's local dimension)
Mismatched(f, H) ==
    \/ Len(H.list) # size(f)
    \/ \E i \in 1..size(f) : Shape(H.list[i]) # <<TDim, f.expression.dims[i]>>

\* C8 as stated: a Jacobian request with missing, extra or wrongly shaped
\* buffers makes unwhitenedError fail fatally; it neither returns a
\* residual nor raises a recoverable error.
C8_MismatchIsFatal ==
    (call.op = "unwhitenedError" /\ call.H.some /\ Mismatched(fac, call.H)) =>
        ret.status = "abort"

\* C8 as amended: a buffer list with missing or extra entries aborts the
\* call in a build with assertions; with assertions compiled out, missing
\* entries raise out_of_range and extra entries are ignored; entries of the
\* wrong shape are resized and zeroed and the call returns the residual and
\* fills them with the Jacobians.
C8_CountAssertedShapesResized ==
    (call.op = "unwhitenedError" /\ call.H.some) =>
        LET given == Len(call.H.list)
            residual == unwhitenedError(fac, call.x, NoH, ndebug).value
            filled == /\ ret.status = "ok"
                      /\ ret.value = residual
                      /\ \A i \in 1..size(fac) :
                            /\ Shape(Hbuf[i]) = <<TDim, fac.expression.dims[i]>>
                            /\ Hbuf[i] = ExprJacobian(fac.expression, i)
                      /\ \A i \in (size(fac) + 1)..given : Hbuf[i] = call.H.list[i]
        IN  /\ (~ndebug /\ given # size(fac)) =>
                    ret.status = "abort" /\ Hbuf = call.H.list
            /\ (ndebug /\ given < size(fac)) => ret.status = "out_of_range"
            /\ (ndebug /\ given > size(fac)) => filled
            /\ given = size(fac) => filled

\* a call with the right number of buffers, one of the wrong shape, returned
C8_Witness ==
    /\ call.op = "unwhitenedError"
    /\ call.H.some
    /\ Len(call.H.list) = size(fac)
    /\ Mismatched(fac, call.H)
    /\ ret.status = "ok"

\* C9: the factor linearize returns carries a noise annotation if and only
\* if the bound noise model is of the constrained kind, and the annotation
\* is then that model's unit(); otherwise it carries none.
C9_ConstrainedTag ==
    call.op = "linearize" =>
        /\ ret.model.some <=> fac.noiseModel.kind = "Constrained"
        /\ ret.model.some => ret.model.model = unit(fac.noiseModel)
        /\ ~ret.model.some => ret.model = NoModel

\* linearize has returned for a factor with a constrained noise model
C9_Witness ==
    /\ call.op = "linearize"
    /\ fac.noiseModel.kind = "Constrained"
    /\ ret.model.some

====
